---------------------------- MODULE Spec2Model ----------------------------
(***************************************************************************)
(* A model of gmail_extractor (src/src/main.rs): the listing loop, the     *)
(* bounded-concurrency batch scheduler (for_each_concurrent), the per      *)
(* message header fetch, the sender extraction and the shared tally.       *)
(*                                                                         *)
(* Option<T> values are sequences of length at most one: None is << >>     *)
(* and Some(x) is <<x>>.  Strings the program inspects character by        *)
(* character (header names, header values, tally keys) are sequences of    *)
(* one-character strings.                                                  *)
(***************************************************************************)
EXTENDS Naturals, Sequences, FiniteSets

None == << >>

Some(x) == <<x>>

(***************************************************************************)
(* Bounds of the model.  BATCH_SIZE is 100 and MAX_PARALLEL_BATCHES is 5   *)
(* in the source (main.rs lines 16 and 17); they are scaled down here so   *)
(* that several batches and a full worker pool fit in the state space.     *)
(***************************************************************************)
BATCH_SIZE == 2

MAX_PARALLEL_BATCHES == 2

MaxPages == 3

\* the listed entry whose fetch hangs in the specification with a hung fetch
HungEntry == 1

\* the listing loop is cut off one call after the longest server
MaxCalls == MaxPages + 1

(***************************************************************************)
(* Characters and the two string conversions the program applies.          *)
(***************************************************************************)
UpperLetters ==
  <<"A","B","C","D","E","F","G","H","I","J","K","L","M",
    "N","O","P","Q","R","S","T","U","V","W","X","Y","Z">>

LowerLetters ==
  <<"a","b","c","d","e","f","g","h","i","j","k","l","m",
    "n","o","p","q","r","s","t","u","v","w","x","y","z">>

Digits == {"0","1","2","3","4","5","6","7","8","9"}

Range(s) == { s[i] : i \in DOMAIN s }

IsUpper(c) == c \in Range(UpperLetters)

\* char::to_lowercase on the characters of the model's alphabet
LowerChar(c) ==
  IF IsUpper(c)
    THEN LowerLetters[CHOOSE i \in DOMAIN UpperLetters : UpperLetters[i] = c]
    ELSE c

\* a variant that keeps the case of the match
to_lowercase_keep(s) == s

\* str::to_lowercase
to_lowercase(s) == [ i \in DOMAIN s |-> LowerChar(s[i]) ]

\* str::to_ascii_lowercase, which eq_ignore_ascii_case compares through
to_ascii_lowercase(s) == [ i \in DOMAIN s |-> LowerChar(s[i]) ]

\* name.eq_ignore_ascii_case("from")
eq_ignore_ascii_case_from(name) == to_ascii_lowercase(name) = <<"f","r","o","m">>

\* \w of the regex
IsWordChar(c) ==
  c \in Range(UpperLetters) \cup Range(LowerLetters) \cup Digits \cup {"_"}

\* the character class [\w\.-]
AddrChar(c) == IsWordChar(c) \/ c = "." \/ c = "-"

\* last index of the maximal run of class characters that starts at i
RECURSIVE RunEnd(_, _)
RunEnd(s, i) ==
  IF i + 1 <= Len(s) /\ AddrChar(s[i + 1]) THEN RunEnd(s, i + 1) ELSE i

\* [\w\.-]+@[\w\.-]+ matches at start i (greedy, so both runs are maximal)
MatchesAt(s, i) ==
  /\ i \in DOMAIN s
  /\ AddrChar(s[i])
  /\ LET j == RunEnd(s, i)
     IN  /\ j + 2 <= Len(s)
         /\ s[j + 1] = "@"
         /\ AddrChar(s[j + 2])

MatchEnd(s, i) == RunEnd(s, RunEnd(s, i) + 2)

\* re.find(&val): the leftmost match, as Option<text of the match>
re_find(s) ==
  LET starts == { i \in DOMAIN s : MatchesAt(s, i) }
  IN  IF starts = {}
        THEN None
        ELSE LET i == CHOOSE x \in starts : \A y \in starts : x <= y
             IN  Some(SubSeq(s, i, MatchEnd(s, i)))


(***************************************************************************)
(* Maps (HashMap<String, usize>) are functions with a finite domain.       *)
(***************************************************************************)
EmptyMap == [ k \in {} |-> 0 ]

MapGet(m, k) == IF k \in DOMAIN m THEN m[k] ELSE 0

MapPut(m, k, v) == [ x \in (DOMAIN m) \cup {k} |-> IF x = k THEN v ELSE m[x] ]

RECURSIVE SumOver(_, _)
SumOver(m, ks) ==
  IF ks = {}
    THEN 0
    ELSE LET k == CHOOSE x \in ks : TRUE
         IN  m[k] + SumOver(m, ks \ {k})

MapSum(m) == SumOver(m, DOMAIN m)

(***************************************************************************)
(* The listing endpoint.  A server is a sequence of pages; the token       *)
(* carried by page i is the cursor of page i + 1 and the last page carries *)
(* none.  A page is an error, or a response with an optional message list  *)
(* (each entry with an optional id) and an optional next-page token.       *)
(***************************************************************************)
ErrPage == [ err |-> TRUE, messages |-> None, next |-> None ]

OkPage(msgs, nxt) == [ err |-> FALSE, messages |-> msgs, next |-> nxt ]

\* the message lists a page of the enumerated servers may carry
PageLists ==
  { None,
    Some(<< >>),
    Some(<< Some("a") >>),
    Some(<< None, Some("b") >>),
    Some(<< Some("a"), Some("a") >>) }

\* what one page of an enumerated server answers: a failure or a list
PageChoices ==
  { [ err |-> TRUE, messages |-> None ] }
    \cup { [ err |-> FALSE, messages |-> l ] : l \in PageLists }

\* a chain of pages: page i answers choice f[i] and points to page i + 1
ChainServer(f) ==
  [ i \in DOMAIN f |->
      IF f[i].err
        THEN ErrPage
        ELSE OkPage(f[i].messages, IF i < Len(f) THEN Some(i + 1) ELSE None) ]

\* every server of at most MaxPages pages over PageChoices
ListerServers ==
  UNION { { ChainServer(f) : f \in [ 1..n -> PageChoices ] } : n \in 1..MaxPages }

\* the mailboxes of the whole-pipeline specification
PipelineServers ==
  { \* one page, three messages
    << OkPage(Some(<< Some("a"), Some("b"), Some("c") >>), None) >>,
    \* two pages, an entry without id, five messages (three batches)
    << OkPage(Some(<< Some("a"), None, Some("b") >>), Some(2)),
       OkPage(Some(<< Some("c"), Some("d"), Some("e") >>), None) >>,
    \* a page without a message list, then an identifier listed twice
    << OkPage(None, Some(2)),
       OkPage(Some(<< Some("a"), Some("a") >>), None) >>,
    \* the empty mailbox
    << OkPage(None, None) >>,
    \* the first page fails
    << ErrPage >>,
    \* the second page fails after the first returned identifiers
    << OkPage(Some(<< Some("a"), Some("b") >>), Some(2)), ErrPage >> }

\* the endpoint's answer to a call carrying the optional token tok
Serve(srv, tok) == IF tok = None THEN srv[1] ELSE srv[tok[1]]

\* messages.into_iter().filter_map(|m| m.id)
RECURSIVE filter_map_id(_)
filter_map_id(msgs) ==
  IF msgs = << >>
    THEN << >>
    ELSE (IF Head(msgs) = None THEN << >> ELSE << Head(msgs)[1] >>)
           \o filter_map_id(Tail(msgs))

\* if let Some(messages) = resp.messages { message_ids.extend(...) }
ExtendIds(ids, resp) ==
  IF resp.messages = None THEN ids ELSE ids \o filter_map_id(resp.messages[1])

\* a variant that drops a last batch shorter than n (chunks_exact)
RECURSIVE chunks_exact(_, _)
chunks_exact(ids, n) ==
  IF Len(ids) < n
    THEN << >>
    ELSE << SubSeq(ids, 1, n) >> \o chunks_exact(SubSeq(ids, n + 1, Len(ids)), n)

\* message_ids.chunks(BATCH_SIZE) collected into Vec<Vec<String>>
RECURSIVE chunks(_, _)
chunks(ids, n) ==
  IF ids = << >>
    THEN << >>
    ELSE IF Len(ids) <= n
      THEN << ids >>
      ELSE << SubSeq(ids, 1, n) >> \o chunks(SubSeq(ids, n + 1, Len(ids)), n)

(***************************************************************************)
(* The header fetch.  An outcome is a failure or a message with an         *)
(* optional payload, whose header list is optional, whose headers have an  *)
(* optional name and an optional value.                                    *)
(***************************************************************************)
Hdr(n, v) == [ name |-> n, value |-> v ]

FetchErr == [ ok |-> FALSE, payload |-> None ]

FetchOk(payload) == [ ok |-> TRUE, payload |-> payload ]

WithHeaders(hs) == FetchOk(Some([ headers |-> Some(hs) ]))

NameFrom == << "F","r","o","m" >>

NameFromLower == << "f","r","o","m" >>

NameSubject == << "S","u","b","j","e","c","t" >>

\* "Jane <jane@x.com>"
ValJane ==
  << "J","a","n","e"," ","<","j","a","n","e","@","x",".","c","o","m",">" >>

\* "jane@X.COM"
ValJaneUpper == << "j","a","n","e","@","X",".","C","O","M" >>

\* "bob@y.org"
ValBob == << "b","o","b","@","y",".","o","r","g" >>

\* "no reply <>"
ValNoAddr == << "n","o"," ","r","e","p","l","y"," ","<",">" >>

KeyJane == << "j","a","n","e","@","x",".","c","o","m" >>

KeyBob == ValBob

FetchOutcomes ==
  { FetchErr,
    FetchOk(None),
    FetchOk(Some([ headers |-> None ])),
    WithHeaders(<< Hdr(Some(NameSubject), Some(ValBob)) >>),
    WithHeaders(<< Hdr(None, Some(ValBob)), Hdr(Some(NameFrom), None) >>),
    WithHeaders(<< Hdr(Some(NameFrom), Some(ValNoAddr)) >>),
    WithHeaders(<< Hdr(Some(NameFrom), Some(ValJane)) >>),
    WithHeaders(<< Hdr(Some(NameFromLower), Some(ValJaneUpper)) >>),
    WithHeaders(<< Hdr(Some(NameSubject), Some(ValJane)),
                   Hdr(Some(NameFrom), Some(ValBob)) >>),
    WithHeaders(<< Hdr(Some(NameFrom), Some(ValBob)),
                   Hdr(Some(NameFrom), Some(ValBob)) >>) }

\* the header list the two if-lets (payload, headers) let through
HeadersOf(message) ==
  IF message.payload = None
    THEN << >>
    ELSE IF message.payload[1].headers = None
      THEN << >>
      ELSE message.payload[1].headers[1]

\* a variant that takes every returned header for the From header
IsFromNameAny(name) == TRUE

\* name.as_deref().unwrap_or("").eq_ignore_ascii_case("from")
IsFromName(name) ==
  eq_ignore_ascii_case_from(IF name = None THEN << >> ELSE name[1])

\* the key one header contributes: mat.as_str().to_lowercase(), or None
HeaderKey(h) ==
  IF IsFromName(h.name) /\ h.value # None /\ re_find(h.value[1]) # None
    THEN Some(to_lowercase(re_find(h.value[1])[1]))
    ELSE None

\* the keys the header loop records for one message, in header order
RECURSIVE KeysOf(_)
KeysOf(hs) ==
  IF hs = << >> THEN << >> ELSE HeaderKey(Head(hs)) \o KeysOf(Tail(hs))

(***************************************************************************)
(* State.                                                                  *)
(*   server       the listing endpoint the run talks to                    *)
(*   pc           where main is: "listing", "listed", "running", "joined", *)
(*                "unwrapped", "done", "failed" (main returned Err),       *)
(*                "panic" (an unwrap failed)                               *)
(*   page_token, message_ids, counts (Option: None until line 80),         *)
(*   batches      the locals of main                                       *)
(*   nxt          index of the next batch the stream will yield            *)
(*   st, pos      per batch: the state of its future ("queued", "fetch",   *)
(*                "lock", "locked", "sleep", "finished") and the position  *)
(*                of msg_id in the batch                                   *)
(*   todo, tmp    per batch: the keys its header loop has still to record  *)
(*                and the count it read under the lock                     *)
(*   mutex        0 when the tally's lock is free, else the batch holding  *)
(*   strong       the strong count of the Arc                              *)
(*   pb_pos       position of the progress bar                             *)
(*   errlog       the identifiers written to stderr by the Err arm         *)
(*   tally        Option: the map taken out of the Arc                     *)
(*   report       the data rows handed to the CSV writer                   *)
(* History variables:                                                      *)
(*   calls        the token of every listing call, in order                *)
(*   dispatched   per listed entry, the number of fetches issued for it    *)
(*   resolved     per listed entry, the outcomes ("ok", "err") its fetches *)
(*                resolved with, in order                                  *)
(*   recorded     per address, the number of increments performed          *)
(*   from_seen    the From header values of the messages fetched so far    *)
(*   matched      per address, the number of fetched messages with a From  *)
(*                header that matched it                                   *)
(*   nmatched     the number of fetched messages with a matching From      *)
(***************************************************************************)
VARIABLES server, pc, page_token, message_ids, counts, batches, nxt, st, pos,
          todo, tmp, mutex, strong, pb_pos, errlog, tally, report,
          calls, dispatched, resolved, recorded, from_seen, matched, nmatched

listVars == << server, page_token, message_ids, calls >>

poolVars == << batches, nxt, st, pos, todo, tmp, mutex, strong, pb_pos >>

histVars == << dispatched, resolved, recorded, from_seen, matched, nmatched >>

vars == << server, pc, page_token, message_ids, counts, batches, nxt, st, pos,
           todo, tmp, mutex, strong, pb_pos, errlog, tally, report,
           calls, dispatched, resolved, recorded, from_seen, matched, nmatched >>

InitWith(servers) ==
  /\ server \in servers
  /\ pc = "listing"
  /\ page_token = None
  /\ message_ids = << >>
  /\ counts = None
  /\ batches = << >>
  /\ nxt = 1
  /\ st = << >>
  /\ pos = << >>
  /\ todo = << >>
  /\ tmp = << >>
  /\ mutex = 0
  /\ strong = 0
  /\ pb_pos = 0
  /\ errlog = << >>
  /\ tally = None
  /\ report = None
  /\ calls = << >>
  /\ dispatched = << >>
  /\ resolved = << >>
  /\ recorded = EmptyMap
  /\ from_seen = {}
  /\ matched = EmptyMap
  /\ nmatched = 0

Init == InitWith(PipelineServers)

InitLister == InitWith(ListerServers)

(***************************************************************************)
(* The listing loop (lines 57-75).                                         *)
(***************************************************************************)
\* a variant that leaves the loop on a failed page and goes on with the
\* identifiers listed so far
ListErrBreak ==
  /\ pc' = "listed"
  /\ UNCHANGED << page_token, message_ids >>

\* the `?` of line 63: the error leaves main
ListErr ==
  /\ pc' = "failed"
  /\ UNCHANGED << page_token, message_ids >>

\* a variant that stops at a page without a message list
ListOkStopOnEmpty(resp) ==
  /\ message_ids' = ExtendIds(message_ids, resp)
  /\ IF resp.next # None /\ resp.messages # None
       THEN /\ page_token' = Some(resp.next[1])
            /\ pc' = pc
       ELSE /\ page_token' = page_token
            /\ pc' = "listed"

\* lines 65-74 on a page that was answered
ListOk(resp) ==
  /\ message_ids' = ExtendIds(message_ids, resp)
  /\ IF resp.next # None
       THEN /\ page_token' = Some(resp.next[1])
            /\ pc' = pc
       ELSE /\ page_token' = page_token
            /\ pc' = "listed"

\* one iteration of the loop: the call with the current token and its answer
ListPage ==
  /\ pc = "listing"
  /\ Len(calls) < MaxCalls
  /\ calls' = Append(calls, page_token)
  /\ LET resp == Serve(server, page_token)
     IN  IF resp.err THEN ListErr ELSE ListOk(resp)
  /\ UNCHANGED << server, counts, poolVars, errlog, tally, report, histVars >>

NextLister == ListPage

SpecLister == InitLister /\ [][NextLister]_vars

(***************************************************************************)
(* Lines 77-99: the shared tally, the batches, the progress bar.           *)
(***************************************************************************)
Setup ==
  /\ pc = "listed"
  /\ pc' = "running"
  /\ counts' = Some(EmptyMap)
  /\ strong' = 1
  /\ batches' = chunks(message_ids, BATCH_SIZE)
  /\ nxt' = 1
  /\ st' = [ b \in DOMAIN batches' |-> "queued" ]
  /\ pos' = [ b \in DOMAIN batches' |-> 0 ]
  /\ todo' = [ b \in DOMAIN batches' |-> << >> ]
  /\ tmp' = [ b \in DOMAIN batches' |-> 0 ]
  /\ dispatched' = [ i \in DOMAIN message_ids |-> 0 ]
  /\ resolved' = [ i \in DOMAIN message_ids |-> << >> ]
  /\ UNCHANGED << listVars, mutex, pb_pos, errlog, tally, report,
                  recorded, from_seen, matched, nmatched >>

(***************************************************************************)
(* The scheduler, stream::iter(batches).for_each_concurrent(limit, f)      *)
(* (lines 101-146), and the future of one batch (lines 108-144).           *)
(***************************************************************************)
Batches == DOMAIN st

\* a variant that gives the slot back when the last fetch has resolved,
\* before the pacing delay
ActiveNoSleep == { b \in Batches : st[b] \notin {"queued", "sleep", "finished"} }

\* the futures created and not yet completed
Active == { b \in Batches : st[b] \notin {"queued", "finished"} }

\* the header fetches issued and not yet resolved
InFlight == { b \in Batches : st[b] = "fetch" }

\* index in message_ids of entry p of batch b
Idx(b, p) == (b - 1) * BATCH_SIZE + p

\* a variant that admits one future more than the limit
CanDispatchOffByOne == Cardinality(Active) <= MAX_PARALLEL_BATCHES

\* a variant that runs the batches one after the other
CanDispatchOneByOne == Active = {}

\* for_each_concurrent pulls the next batch only below the limit
CanDispatch == Cardinality(Active) < MAX_PARALLEL_BATCHES

\* a variant that returns as soon as no future is left
StreamDoneEarly == Active = {}

\* a variant that waits for the completion of a last future, which an empty
\* stream never has
StreamDoneAfterLast ==
  nxt > Len(batches) /\ Active = {} /\ \E b \in Batches : st[b] = "finished"

\* for_each_concurrent returns: the stream is exhausted and no future is left
StreamDone == nxt > Len(batches) /\ Active = {}

\* a variant without mutual exclusion
LockFreeUnguarded == TRUE

\* counts.lock() succeeds only on a free mutex
LockFree == mutex = 0

\* the position of the entry the for loop of line 110 takes after entry p
NextPos(p) == p + 1

\* a variant that issues the fetches of all entries of the batch at once
DispatchAll(b) ==
  /\ pc = "running"
  /\ b = nxt
  /\ b \in Batches
  /\ CanDispatch
  /\ nxt' = nxt + 1
  /\ strong' = strong + 1
  /\ st' = [ st EXCEPT ![b] = "fetch" ]
  /\ pos' = [ pos EXCEPT ![b] = NextPos(0) ]
  /\ dispatched' =
       [ i \in DOMAIN dispatched |->
           IF i >= Idx(b, 1) /\ i <= Idx(b, Len(batches[b]))
             THEN dispatched[i] + 1
             ELSE dispatched[i] ]
  /\ UNCHANGED << pc, listVars, counts, batches, todo, tmp, mutex, pb_pos,
                  errlog, tally, report, resolved, recorded, from_seen, matched, nmatched >>

\* the closure is called on the next batch (Arc::clone, line 105) and its
\* future polled: it issues the fetch of its first entry
Dispatch(b) ==
  /\ pc = "running"
  /\ b = nxt
  /\ b \in Batches
  /\ CanDispatch
  /\ nxt' = nxt + 1
  /\ strong' = strong + 1
  /\ st' = [ st EXCEPT ![b] = "fetch" ]
  /\ pos' = [ pos EXCEPT ![b] = NextPos(0) ]
  /\ dispatched' = [ dispatched EXCEPT ![Idx(b, NextPos(0))] = @ + 1 ]
  /\ UNCHANGED << pc, listVars, counts, batches, todo, tmp, mutex, pb_pos,
                  errlog, tally, report, resolved, recorded, from_seen, matched, nmatched >>

\* the end of one iteration of the for loop: the fetch of the next entry is
\* issued, or after the last entry pb.inc and the sleep of lines 142-143
AfterMessage(b) ==
  IF pos[b] < Len(batches[b])
    THEN /\ pos' = [ pos EXCEPT ![b] = NextPos(@) ]
         /\ st' = [ st EXCEPT ![b] = "fetch" ]
         /\ dispatched' = [ dispatched EXCEPT ![Idx(b, NextPos(pos[b]))] = @ + 1 ]
         /\ pb_pos' = pb_pos
    ELSE /\ pos' = pos
         /\ st' = [ st EXCEPT ![b] = "sleep" ]
         /\ dispatched' = dispatched
         /\ pb_pos' = pb_pos + Len(batches[b])

\* a variant that fetches the failed entry again
ErrArmRetry(b) ==
  /\ errlog' = Append(errlog, batches[b][pos[b]])
  /\ pc' = pc
  /\ dispatched' = [ dispatched EXCEPT ![Idx(b, pos[b])] = @ + 1 ]
  /\ UNCHANGED << st, pos, pb_pos, todo, from_seen, matched, nmatched >>

\* a variant that gives up the rest of the batch
ErrArmBreak(b) ==
  /\ errlog' = Append(errlog, batches[b][pos[b]])
  /\ pc' = pc
  /\ st' = [ st EXCEPT ![b] = "sleep" ]
  /\ pb_pos' = pb_pos + Len(batches[b])
  /\ UNCHANGED << pos, dispatched, todo, from_seen, matched, nmatched >>

\* a variant that drops the failure without printing it
ErrArmSilent(b) ==
  /\ errlog' = errlog
  /\ pc' = pc
  /\ AfterMessage(b)
  /\ UNCHANGED << todo, from_seen, matched, nmatched >>

\* the Err arm (lines 136-138): the failure is printed and the loop goes on
ErrArm(b) ==
  /\ errlog' = Append(errlog, batches[b][pos[b]])
  /\ pc' = pc
  /\ AfterMessage(b)
  /\ UNCHANGED << todo, from_seen, matched, nmatched >>

(***************************************************************************)
(* What the history variables record of a fetched message.  These are      *)
(* stated from the data, not through the program's extraction: the From    *)
(* header values the message carries and the address each value of the     *)
(* model denotes.                                                          *)
(***************************************************************************)
FromValuesOf(o) ==
  IF ~o.ok \/ o.payload = None \/ o.payload[1].headers = None
    THEN {}
    ELSE { h.value[1] : h \in { x \in Range(o.payload[1].headers[1]) :
                                  /\ x.name \in { Some(NameFrom), Some(NameFromLower) }
                                  /\ x.value # None } }

AddressOf(v) ==
  CASE v = ValJane -> Some(KeyJane)
    [] v = ValJaneUpper -> Some(KeyJane)
    [] v = ValBob -> Some(KeyBob)
    [] OTHER -> None

AddressesOf(o) ==
  { AddressOf(v)[1] : v \in { x \in FromValuesOf(o) : AddressOf(x) # None } }

\* the keys each outcome of the model makes the header loop record
OutcomeKeys == [ o \in FetchOutcomes |-> KeysOf(HeadersOf(o)) ]

RECURSIVE BumpAll(_, _)
BumpAll(m, ks) ==
  IF ks = {}
    THEN m
    ELSE LET k == CHOOSE x \in ks : TRUE
         IN  BumpAll(MapPut(m, k, MapGet(m, k) + 1), ks \ {k})

\* the Ok arm (lines 119-135) up to the first lock: the headers that pass the
\* tests of lines 123-125 are the keys left to record
OkArm(b, message) ==
  LET keys == OutcomeKeys[message]
  IN  /\ errlog' = errlog
      /\ pc' = pc
      /\ from_seen' = from_seen \cup FromValuesOf(message)
      /\ matched' = BumpAll(matched, AddressesOf(message))
      /\ nmatched' = IF AddressesOf(message) = {} THEN nmatched ELSE nmatched + 1
      /\ IF keys = << >>
           THEN /\ AfterMessage(b)
                /\ todo' = todo
           ELSE /\ st' = [ st EXCEPT ![b] = "lock" ]
                /\ todo' = [ todo EXCEPT ![b] = keys ]
                /\ UNCHANGED << pos, dispatched, pb_pos >>

\* the fetch of the current entry of batch b resolves with outcome o
FetchResolve(b, o) ==
  /\ pc = "running"
  /\ b \in Batches
  /\ st[b] = "fetch"
  /\ resolved' = [ resolved EXCEPT ![Idx(b, pos[b])] =
                     Append(@, IF o.ok THEN "ok" ELSE "err") ]
  /\ IF o.ok THEN OkArm(b, o) ELSE ErrArm(b)
  /\ UNCHANGED << listVars, counts, batches, nxt, tmp, mutex, strong,
                  tally, report, recorded >>

\* line 126 and the entry of line 127: the lock is taken, the entry is
\* created at 0 when absent, and its count is read
Lock(b) ==
  /\ pc = "running"
  /\ b \in Batches
  /\ st[b] = "lock"
  /\ LockFree
  /\ mutex' = b
  /\ st' = [ st EXCEPT ![b] = "locked" ]
  /\ LET k == Head(todo[b])
         m == IF k \in DOMAIN counts[1] THEN counts[1] ELSE MapPut(counts[1], k, 0)
     IN  /\ counts' = Some(m)
         /\ tmp' = [ tmp EXCEPT ![b] = m[k] ]
  /\ UNCHANGED << pc, listVars, batches, nxt, pos, todo, strong, pb_pos,
                  errlog, tally, report, histVars >>

\* a variant whose guard outlives the increment: the lock stays held over the
\* rest of the header loop, the next fetch and the pacing delay
IncrKeepLock(b) ==
  /\ pc = "running"
  /\ b \in Batches
  /\ st[b] = "locked"
  /\ LET k == Head(todo[b])
     IN  /\ counts' = Some(MapPut(counts[1], k, tmp[b] + 1))
         /\ recorded' = MapPut(recorded, k, MapGet(recorded, k) + 1)
  /\ mutex' = mutex
  /\ todo' = [ todo EXCEPT ![b] = Tail(@) ]
  /\ IF Tail(todo[b]) = << >>
       THEN AfterMessage(b)
       ELSE /\ st' = [ st EXCEPT ![b] = "lock" ]
            /\ UNCHANGED << pos, dispatched, pb_pos >>
  /\ UNCHANGED << pc, listVars, batches, nxt, tmp, strong, errlog, tally,
                  report, resolved, from_seen, matched, nmatched >>

\* the += 1 of line 128 and the drop of the guard at line 129; the header
\* loop then goes on to the next key, or the iteration ends
Incr(b) ==
  /\ pc = "running"
  /\ b \in Batches
  /\ st[b] = "locked"
  /\ LET k == Head(todo[b])
     IN  /\ counts' = Some(MapPut(counts[1], k, tmp[b] + 1))
         /\ recorded' = MapPut(recorded, k, MapGet(recorded, k) + 1)
  /\ mutex' = 0
  /\ todo' = [ todo EXCEPT ![b] = Tail(@) ]
  /\ IF Tail(todo[b]) = << >>
       THEN AfterMessage(b)
       ELSE /\ st' = [ st EXCEPT ![b] = "lock" ]
            /\ UNCHANGED << pos, dispatched, pb_pos >>
  /\ UNCHANGED << pc, listVars, batches, nxt, tmp, strong, errlog, tally,
                  report, resolved, from_seen, matched, nmatched >>

\* a variant whose clone of the Arc outlives the future
WakeKeepHandle(b) ==
  /\ pc = "running"
  /\ b \in Batches
  /\ st[b] = "sleep"
  /\ st' = [ st EXCEPT ![b] = "finished" ]
  /\ strong' = strong
  /\ UNCHANGED << pc, listVars, counts, batches, nxt, pos, todo, tmp, mutex,
                  pb_pos, errlog, tally, report, histVars >>

\* the sleep of line 143 ends: the future completes and is dropped, and with
\* it its clone of the Arc
Wake(b) ==
  /\ pc = "running"
  /\ b \in Batches
  /\ st[b] = "sleep"
  /\ st' = [ st EXCEPT ![b] = "finished" ]
  /\ strong' = strong - 1
  /\ UNCHANGED << pc, listVars, counts, batches, nxt, pos, todo, tmp, mutex,
                  pb_pos, errlog, tally, report, histVars >>

\* for_each_concurrent returns (line 146)
Join ==
  /\ pc = "running"
  /\ StreamDone
  /\ pc' = "joined"
  /\ UNCHANGED << listVars, counts, poolVars, errlog, tally, report, histVars >>

\* Arc::try_unwrap(counts).unwrap().into_inner().unwrap() (lines 151-154)
Unwrap ==
  /\ pc = "joined"
  /\ IF strong = 1
       THEN /\ tally' = Some(counts[1])
            /\ counts' = None
            /\ strong' = 0
            /\ pc' = "unwrapped"
       ELSE /\ pc' = "panic"
            /\ UNCHANGED << tally, counts, strong >>
  /\ UNCHANGED << listVars, batches, nxt, st, pos, todo, tmp, mutex, pb_pos,
                  errlog, report, histVars >>

\* lines 156-166: one row per entry of the tally goes to the writer (the
\* writer's own I/O is outside the model)
WriteCsv ==
  /\ pc = "unwrapped"
  /\ report' = Some(tally[1])
  /\ pc' = "done"
  /\ UNCHANGED << listVars, counts, poolVars, errlog, tally, histVars >>

Next ==
  \/ ListPage
  \/ Setup
  \/ \E b \in Batches : Dispatch(b)
  \/ \E b \in Batches : \E o \in FetchOutcomes : FetchResolve(b, o)
  \/ \E b \in Batches : Lock(b)
  \/ \E b \in Batches : Incr(b)
  \/ \E b \in Batches : Wake(b)
  \/ Join
  \/ Unwrap
  \/ WriteCsv

Spec == Init /\ [][Next]_vars

(***************************************************************************)
(* Properties.                                                             *)
(***************************************************************************)
\* for_each_concurrent has returned
Finished == pc \in {"joined", "unwrapped", "done"}

\* the tally, wherever it lives: inside the Arc or taken out of it
Tally ==
  IF tally # None THEN tally[1] ELSE IF counts # None THEN counts[1] ELSE EmptyMap

FailedEntries == { i \in DOMAIN resolved : resolved[i] = << "err" >> }

OkEntries == { i \in DOMAIN resolved : resolved[i] = << "ok" >> }

\* C1: once the scheduler has finished, the tally holds for each address
\* exactly the number of increments performed for it, whatever the
\* interleaving of the batch tasks was: none is lost, none is applied twice.
C1_NoLostIncrement == Finished => Tally = recorded

C1_Witness ==
  /\ pc = "done"
  /\ Len(batches) >= 2
  /\ \E k \in DOMAIN tally[1] : tally[1][k] >= 3

\* C2: in every state the number of header fetches issued and not yet
\* resolved is at most the concurrency ceiling.
C2_Ceiling == Cardinality(InFlight) <= MAX_PARALLEL_BATCHES

C2_Witness ==
  /\ Cardinality(InFlight) = MAX_PARALLEL_BATCHES
  /\ \E b \in Batches : st[b] = "finished"
  /\ nxt > MAX_PARALLEL_BATCHES + 1

\* C3: when the scheduler reports completion every listed entry has been
\* dispatched to the header fetch exactly once and that fetch has resolved.
C3_DispatchedOnce ==
  Finished =>
    /\ DOMAIN dispatched = DOMAIN message_ids
    /\ \A i \in DOMAIN message_ids :
         /\ dispatched[i] = 1
         /\ resolved[i] \in { << "ok" >>, << "err" >> }

C3_Witness ==
  /\ pc = "joined"
  /\ Len(message_ids) = 5
  /\ FailedEntries # {}
  /\ OkEntries # {}

\* C4: the tally is taken out of the Arc only after every fetch of every
\* batch has resolved, no increment happens after that, and the value taken
\* holds every increment of the run.
C4_ReadAfterAll ==
  tally # None =>
    /\ Active = {}
    /\ nxt > Len(batches)
    /\ mutex = 0
    /\ \A i \in DOMAIN message_ids :
         /\ dispatched[i] >= 1
         /\ Len(resolved[i]) = dispatched[i]
    /\ tally[1] = recorded

C4_Witness ==
  /\ pc = "done"
  /\ tally # None
  /\ Len(batches) = 3
  /\ MapSum(tally[1]) >= 2

\* entry i is the last of its batch
LastOfBatch(i) == i % BATCH_SIZE = 0 \/ i = Len(message_ids)

\* C5: a failed header fetch does not abort the pipeline: the entry is not
\* fetched again, the next entry of the same batch is fetched, and a run that
\* finishes has fetched every entry and written the report.
C5_FailureSkipsItem ==
  \A i \in DOMAIN resolved :
    "err" \in Range(resolved[i]) =>
      /\ pc \notin {"failed", "panic"}
      /\ dispatched[i] = 1
      /\ resolved[i] = << "err" >>
      /\ ~LastOfBatch(i) => dispatched[i + 1] = 1
      /\ Finished => \A j \in DOMAIN resolved : Len(resolved[j]) = 1
      /\ pc = "done" => report # None /\ report[1] = recorded

C5_Witness ==
  /\ pc = "done"
  /\ Len(message_ids) = 5
  /\ resolved[1] = << "err" >>
  /\ resolved[2] = << "ok" >>
  /\ resolved[5] = << "ok" >>
  /\ report # None
  /\ DOMAIN report[1] # {}

AnsweredErr == \E i \in DOMAIN calls : Serve(server, calls[i]).err

\* C7: if a page request fails the run ends with that error: the failed call
\* is the last one, no header fetch is dispatched, the tally is never created
\* or written and no report is produced.
C7_ListingFailureFatal ==
  AnsweredErr =>
    /\ pc = "failed"
    /\ \A i \in DOMAIN calls : Serve(server, calls[i]).err <=> i = Len(calls)
    /\ counts = None
    /\ strong = 0
    /\ tally = None
    /\ report = None
    /\ DOMAIN batches = {}
    /\ DOMAIN dispatched = {}
    /\ DOMAIN recorded = {}

C7_Witness ==
  /\ pc = "failed"
  /\ Len(calls) = 2
  /\ message_ids # << >>

\* the identifiers present in one message list, in order
PresentIds(msgs) ==
  LET kept == SelectSeq(msgs, LAMBDA m : m # None)
  IN  [ i \in DOMAIN kept |-> kept[i][1] ]

\* the identifiers of pages 1..n of a server, in page order
RECURSIVE ListedUpTo(_, _)
ListedUpTo(srv, n) ==
  IF n = 0
    THEN << >>
    ELSE ListedUpTo(srv, n - 1)
           \o (IF srv[n].messages = None THEN << >> ELSE PresentIds(srv[n].messages[1]))

NoErrPage == \A i \in DOMAIN server : ~server[i].err

\* C8: against a server of K pages of which only the last lacks a token, the
\* loop makes exactly K calls, the first without token and each later one with
\* the token of the page before, stops at the first page without token, and
\* yields the present identifiers of the pages in page order.
C8_Pagination ==
  NoErrPage =>
    /\ Len(calls) <= Len(server)
    /\ \A i \in DOMAIN calls :
         calls[i] = IF i = 1 THEN None ELSE server[i - 1].next
    /\ message_ids = ListedUpTo(server, Len(calls))
    /\ pc = "listed" <=> Len(calls) = Len(server)

C8_Witness ==
  /\ pc = "listed"
  /\ Len(server) = 3
  /\ Len(calls) = 3
  /\ server[1].messages = Some(<< None, Some("b") >>)
  /\ server[2].messages = None
  /\ message_ids = << "b", "a", "a" >>

\* C9: the sum of the counts never exceeds the number of fetched messages
\* whose From header matched, no count exceeds the number of fetched messages
\* that matched its address, and once the scheduler has finished each count
\* equals that number.
C9_CountsAreMessages ==
  /\ MapSum(Tally) <= nmatched
  /\ \A k \in DOMAIN Tally : Tally[k] <= MapGet(matched, k)
  /\ Finished => Tally = matched

NoUpper(k) == \A i \in DOMAIN k : ~IsUpper(k[i])

\* C10: every key of the tally is lower-cased, every key is the address of a
\* fetched From value, and all fetched From values that denote one address,
\* whatever their case or display name, are counted under that one key.
C10_LowerCasedKeys ==
  /\ \A k \in DOMAIN Tally : NoUpper(k)
  /\ \A k \in DOMAIN Tally : \E v \in from_seen : AddressOf(v) = Some(k)
  /\ Finished =>
       \A v \in from_seen :
         AddressOf(v) # None =>
           /\ AddressOf(v)[1] \in DOMAIN Tally
           /\ Tally[AddressOf(v)[1]] >= matched[AddressOf(v)[1]]

C10_Witness ==
  /\ pc = "done"
  /\ message_ids = << "a", "b", "c" >>
  /\ from_seen = { ValJane, ValJaneUpper }
  /\ errlog = << "c" >>
  /\ DOMAIN tally[1] = { KeyJane }
  /\ tally[1][KeyJane] = 2

(***************************************************************************)
(* Progress.  The runtime keeps polling the futures that can make          *)
(* progress, and every call of the run is taken to resolve: whenever some  *)
(* step of the run is possible, a step is eventually taken.                *)
(***************************************************************************)
FairSpec == Init /\ [][Next]_vars /\ WF_vars(Next)

FinishedBatches == { b \in Batches : st[b] = "finished" }

\* every fetch of batch b has resolved
AllResolved(b) ==
  \A p \in 1..Len(batches[b]) : resolved[Idx(b, p)] # << >>

\* C12: a batch keeps its slot through its pacing delay: the batches started
\* never outnumber the ceiling plus the batches whose delay has ended, a
\* batch beyond the first MAX_PARALLEL_BATCHES has started only if an earlier
\* one has ended its delay, and a batch is in or past its delay only with all
\* its fetches resolved.
C12_PacingBeforeNext ==
  /\ nxt <= MAX_PARALLEL_BATCHES + Cardinality(FinishedBatches) + 1
  /\ \A b \in Batches :
       /\ (b > MAX_PARALLEL_BATCHES /\ st[b] # "queued")
            => \E e \in FinishedBatches : e < b
       /\ st[b] \in {"sleep", "finished"} => AllResolved(b)

C12_Witness ==
  /\ Len(st) = 3
  /\ st[1] = "finished"
  /\ st[2] = "sleep"
  /\ st[3] = "fetch"

\* C13: the lock is held only across one increment: its holder is always a
\* task between lines 126 and 129, never one with a fetch in flight or in its
\* pacing delay, and whenever a task waits for the lock either the lock can
\* be taken or its holder can finish the increment, so the tasks never all
\* wait on the lock.
C13_LockOnlyForIncrement ==
  /\ mutex # 0 => (mutex \in Batches /\ st[mutex] = "locked")
  /\ \A b \in Batches : st[b] = "locked" => mutex = b
  /\ \A b \in Batches : st[b] \in {"fetch", "sleep"} => mutex # b
  /\ (\E b \in Batches : st[b] = "lock")
       => ENABLED (\E b \in Batches : Lock(b) \/ Incr(b))

C13_Witness ==
  \E h, w \in Batches :
    /\ mutex = h
    /\ st[h] = "locked"
    /\ st[w] = "lock"

\* the outcomes that carry no sender: a failure, no payload, no header list,
\* no header named From, a From header without value or without a name, a
\* From value without an address
NoMatchOutcomes ==
  { FetchErr,
    FetchOk(None),
    FetchOk(Some([ headers |-> None ])),
    WithHeaders(<< Hdr(Some(NameSubject), Some(ValBob)) >>),
    WithHeaders(<< Hdr(None, Some(ValBob)), Hdr(Some(NameFrom), None) >>),
    WithHeaders(<< Hdr(Some(NameFrom), Some(ValNoAddr)) >>) }

\* C14: a fetch that resolves with an outcome carrying no sender leaves the
\* tally as it is, adds no key, and leaves its task nothing to record.
C14_NoMatchLeavesTally ==
  [][ \A b \in Batches : \A o \in NoMatchOutcomes :
        FetchResolve(b, o) =>
          /\ counts' = counts
          /\ recorded' = recorded
          /\ mutex' = mutex
          /\ todo'[b] = << >>
          /\ st'[b] \in {"fetch", "sleep"} ]_vars

C14_Witness ==
  /\ pc = "done"
  /\ Len(message_ids) = 3
  /\ FailedEntries # {}
  /\ OkEntries # {}
  /\ from_seen = { ValNoAddr }
  /\ tally = Some(EmptyMap)

(***************************************************************************)
(* A run in which the fetch of entry HungEntry never resolves: the await   *)
(* of line 117 stays pending, and every other step of the run is taken as  *)
(* in FairSpec.                                                            *)
(***************************************************************************)
ResolveUnlessHung(b, o) ==
  /\ b \in Batches
  /\ Idx(b, pos[b]) # HungEntry
  /\ FetchResolve(b, o)

NextHang ==
  \/ ListPage
  \/ Setup
  \/ \E b \in Batches : Dispatch(b)
  \/ \E b \in Batches : \E o \in FetchOutcomes : ResolveUnlessHung(b, o)
  \/ \E b \in Batches : Lock(b)
  \/ \E b \in Batches : Incr(b)
  \/ \E b \in Batches : Wake(b)
  \/ Join
  \/ Unwrap
  \/ WriteCsv

HangSpec == Init /\ [][NextHang]_vars /\ WF_vars(NextHang)

\* the server lists the entry that hangs
HungListed ==
  NoErrPage /\ Len(ListedUpTo(server, Len(server))) >= HungEntry

\* the batch of the entry that hangs
HungBatch == ((HungEntry - 1) \div BATCH_SIZE) + 1

\* the entries that follow the hung one in its batch
AfterHung ==
  { i \in DOMAIN dispatched : i > HungEntry /\ i <= HungBatch * BATCH_SIZE }

\* no key leaves the tally and no count goes down
TallyGrows ==
  (counts # None /\ counts' # None) =>
    \A k \in DOMAIN counts[1] :
      k \in DOMAIN counts'[1] /\ counts'[1][k] >= counts[1][k]

\* C15: when one fetch never resolves, the entries after it in its batch are
\* never fetched and the run never reaches the join, the tally read or the
\* report; the other slots go on and every other batch runs to its end; and
\* what has been recorded stays in the tally.
C15_HungFetchStallsOwnSlot ==
  /\ [](HungListed =>
          /\ pc \in {"listing", "listed", "running"}
          /\ tally = None
          /\ report = None
          /\ \A i \in AfterHung : dispatched[i] = 0)
  /\ [][TallyGrows]_vars
  /\ <>[](HungListed =>
            /\ pc = "running"
            /\ st[HungBatch] = "fetch"
            /\ \A b \in Batches \ {HungBatch} :
                 st[b] = "finished" /\ AllResolved(b))

C15_Witness ==
  /\ pc = "running"
  /\ Len(st) = 3
  /\ st[HungBatch] = "fetch"
  /\ \A b \in Batches \ {HungBatch} : st[b] = "finished"
  /\ AfterHung # {}
  /\ \A i \in AfterHung : dispatched[i] = 0
  /\ MapSum(counts[1]) >= 2

(***************************************************************************)
(* The listing loop followed by the split into batches, over every server  *)
(* of at most MaxPages pages.                                              *)
(***************************************************************************)
NextSplit == ListPage \/ Setup

SpecSplit == InitLister /\ [][NextSplit]_vars

RECURSIVE Flatten(_)
Flatten(ss) == IF ss = << >> THEN << >> ELSE Head(ss) \o Flatten(Tail(ss))

\* C16: the batches are non-empty, hold BATCH_SIZE entries each except
\* possibly the last, are contiguous slices of the listed sequence and
\* concatenate to it, an identifier listed twice standing twice; an empty
\* listing gives no batch.
C16_BatchesPartition ==
  pc \notin {"listing", "listed", "failed"} =>
    /\ Flatten(batches) = message_ids
    /\ \A b \in DOMAIN batches :
         /\ Len(batches[b]) >= 1
         /\ Len(batches[b]) <= BATCH_SIZE
         /\ b < Len(batches) => Len(batches[b]) = BATCH_SIZE
         /\ \A p \in DOMAIN batches[b] :
              batches[b][p] = message_ids[(b - 1) * BATCH_SIZE + p]
    /\ message_ids = << >> <=> batches = << >>
    /\ DOMAIN st = DOMAIN batches

C16_Witness ==
  /\ pc = "running"
  /\ message_ids = << "a", "a", "b", "a", "a" >>
  /\ Len(batches) = 3
  /\ Len(batches[3]) = 1

\* C17: when the driver takes the tally out of the Arc no batch task holds a
\* handle: the strong count is one plus the futures alive, it is one when
\* for_each_concurrent has returned, and the unwrap never panics, failed
\* fetches or not.
C17_UnwrapNeverFails ==
  /\ pc # "panic"
  /\ counts # None => strong = 1 + Cardinality(Active)
  /\ pc = "joined" => (strong = 1 /\ Active = {})
  /\ tally # None => (strong = 0 /\ counts = None)

C17_Witness ==
  /\ pc = "unwrapped"
  /\ Len(batches) = 3
  /\ FailedEntries # {}
  /\ tally # None
  /\ strong = 0

\* the positions of batch b whose fetch is issued and not resolved
Outstanding(b) ==
  { p \in 1..Len(batches[b]) :
      dispatched[Idx(b, p)] > Len(resolved[Idx(b, p)]) }

\* C18: a batch has at most one fetch in flight, the one of its current
\* entry; the fetch of an entry is issued only when the entry before it in
\* the batch has resolved and the task has nothing of it left to record.
C18_SequentialInBatch ==
  \A b \in Batches :
    /\ Cardinality(Outstanding(b)) <= 1
    /\ st[b] = "fetch" => (Outstanding(b) = { pos[b] } /\ todo[b] = << >> /\ mutex # b)
    /\ st[b] # "fetch" => Outstanding(b) = {}
    /\ \A p \in 2..Len(batches[b]) :
         dispatched[Idx(b, p)] >= 1 =>
           /\ resolved[Idx(b, p - 1)] # << >>
           /\ pos[b] >= p

C18_Witness ==
  /\ Cardinality(InFlight) = 2
  /\ \E b \in Batches :
       /\ st[b] = "fetch"
       /\ pos[b] = 2
       /\ resolved[Idx(b, 1)] = << "ok" >>
       /\ DOMAIN recorded # {}

=============================================================================
